---- MODULE Spec2Model ----
(***************************************************************************)
(* A model of cleverchatty-cli (src/main.go): the configuration resolver   *)
(* loadConfig, the slash-command dispatcher handleSlashCommand, the busy   *)
(* indicator (showSpinner / releaseActionSpinner and the spinner           *)
(* goroutine) and the session loop of run.                                 *)
(*                                                                         *)
(* Two specifications:                                                     *)
(*   Spec        the session: startup, the input loop, one Prompt call at  *)
(*               a time with the engine's lifecycle callbacks, the spinner *)
(*               goroutines and the two handshake channels;                *)
(*   SpecConfig  loadConfig applied to bounded sets of flags, file         *)
(*               contents, environment and file-system states.             *)
(***************************************************************************)
EXTENDS Integers, Sequences, FiniteSets, TLC

(***************************************************************************)
(* Bounds of the model.                                                    *)
(***************************************************************************)
\* longest input line, in tokens
MaxLineLen == 4
\* Prompt calls per session
MaxTurns == 2
\* ThinkingStarted / ToolCallStarted / ToolCallFailed events per turn
MaxEvents == 3
\* slots for spinner goroutines that exist at the same time
MaxSpinners == 2

(***************************************************************************)
(* Input lines.  A line is a sequence of tokens; a token is one whitespace *)
(* character, the character "/", or a run of letters.                      *)
(***************************************************************************)
Token == {" ", "/", "quit", "QUIT", "tools", "help", "history", "servers", "bogus"}

Lines == UNION {[1..n -> Token] : n \in 0..MaxLineLen}

\* strings.ToLower on one token
LowerToken(t) == IF t = "QUIT" THEN "quit" ELSE t

\* strings.ToLower
ToLower(s) == [i \in 1..Len(s) |-> LowerToken(s[i])]

RECURSIVE TrimLeft(_)
TrimLeft(s) == IF s # <<>> /\ Head(s) = " " THEN TrimLeft(Tail(s)) ELSE s

RECURSIVE TrimRight(_)
TrimRight(s) ==
    IF s # <<>> /\ s[Len(s)] = " " THEN TrimRight(SubSeq(s, 1, Len(s) - 1)) ELSE s

\* strings.TrimSpace
TrimSpace(s) == TrimRight(TrimLeft(s))

\* strings.HasPrefix(s, "/")
HasSlashPrefix(s) == s # <<>> /\ Head(s) = "/"

(***************************************************************************)
(* handleSlashCommand: the result (handled, err), the view it prints and   *)
(* whether it leaves a deferred os.Exit(0) behind.                         *)
(***************************************************************************)
SlashResult(handled, view, exit) ==
    [handled |-> handled, err |-> FALSE, view |-> view, exit |-> exit]

handleSlashCommand_DefaultForwards(prompt) ==
    IF ~HasSlashPrefix(prompt) THEN SlashResult(FALSE, "none", FALSE)
    ELSE LET cmd == ToLower(TrimSpace(prompt)) IN
         CASE cmd = <<"/", "tools">>   -> SlashResult(TRUE, "tools", FALSE)
           [] cmd = <<"/", "help">>    -> SlashResult(TRUE, "help", FALSE)
           [] cmd = <<"/", "history">> -> SlashResult(TRUE, "history", FALSE)
           [] cmd = <<"/", "servers">> -> SlashResult(TRUE, "servers", FALSE)
           [] cmd = <<"/", "quit">>    -> SlashResult(TRUE, "goodbye", TRUE)
           [] OTHER                    -> SlashResult(FALSE, "none", FALSE)

\* the dispatcher leaving "/history" to the engine
handleSlashCommand_HistoryForwards(prompt) ==
    IF ~HasSlashPrefix(prompt) THEN SlashResult(FALSE, "none", FALSE)
    ELSE LET cmd == ToLower(TrimSpace(prompt)) IN
         CASE cmd = <<"/", "tools">>   -> SlashResult(TRUE, "tools", FALSE)
           [] cmd = <<"/", "help">>    -> SlashResult(TRUE, "help", FALSE)
           [] cmd = <<"/", "history">> -> SlashResult(FALSE, "none", FALSE)
           [] cmd = <<"/", "servers">> -> SlashResult(TRUE, "servers", FALSE)
           [] cmd = <<"/", "quit">>    -> SlashResult(TRUE, "goodbye", TRUE)
           [] OTHER                    -> SlashResult(TRUE, "unknown", FALSE)

handleSlashCommand(prompt) ==
    IF ~HasSlashPrefix(prompt) THEN SlashResult(FALSE, "none", FALSE)
    ELSE LET cmd == ToLower(TrimSpace(prompt)) IN
         CASE cmd = <<"/", "tools">>   -> SlashResult(TRUE, "tools", FALSE)
           [] cmd = <<"/", "help">>    -> SlashResult(TRUE, "help", FALSE)
           [] cmd = <<"/", "history">> -> SlashResult(TRUE, "history", FALSE)
           [] cmd = <<"/", "servers">> -> SlashResult(TRUE, "servers", FALSE)
           [] cmd = <<"/", "quit">>    -> SlashResult(TRUE, "goodbye", TRUE)
           [] OTHER                    -> SlashResult(TRUE, "unknown", FALSE)

(***************************************************************************)
(* loadConfig.  Its inputs: the --config flag, the state of the two paths  *)
(* it may look at, whether a missing file can be created, the             *)
(* configuration the cleverchatty library returns for the selected file,   *)
(* the other flags and the environment.                                    *)
(***************************************************************************)
defaultModelFlag == "anthropic:claude-3-5-sonnet-latest"

Paths == {"config.json", "my.json"}

\* absent: os.Stat reports "not exist"; noaccess: os.Stat fails otherwise and
\* the file cannot be read; malformed: the file is there and does not parse.
FileStates == {"absent", "good", "malformed", "noaccess"}

FlagNames == {"debugMode", "messageWindow", "modelFlag", "openaiBaseURL",
              "anthropicBaseURL", "openaiAPIKey", "anthropicAPIKey", "googleAPIKey"}

FileNames == {"DebugMode", "MessageWindow", "Model", "OpenAI_BaseURL",
              "Anthropic_BaseURL", "OpenAI_APIKey", "Anthropic_APIKey", "Google_APIKey"}

EnvNames == {"OPENAI_API_KEY", "ANTHROPIC_API_KEY", "GOOGLE_API_KEY", "GEMINI_API_KEY"}

SourceNames == FlagNames \cup FileNames \cup EnvNames

\* The value a source holds: its zero value when it is not set; when set, a
\* string source holds its own name, so that every source has its own value.
Value(set, n) ==
    CASE n \in {"debugMode", "DebugMode"} -> set[n]
      [] n = "messageWindow"              -> IF set[n] THEN 7 ELSE 0
      [] n = "MessageWindow"              -> IF set[n] THEN 5 ELSE 0
      [] OTHER                            -> IF set[n] THEN n ELSE ""

\* go zero value of cleverchatty.CleverChattyConfig
EmptyConfig ==
    [DebugMode |-> FALSE, MessageWindow |-> 0, Model |-> "",
     OpenAI_BaseURL |-> "", Anthropic_BaseURL |-> "",
     OpenAI_APIKey |-> "", Anthropic_APIKey |-> "", Google_APIKey |-> ""]

\* what LoadMCPConfig / CreateStandardConfigFile return for the selected file
LibraryConfig(in) == [f \in FileNames |-> Value(in.set, f)]

\* os.Stat(path) returns no error
StatOK(fs, path) == fs[path] \in {"good", "malformed"}

\* os.IsNotExist(err) of os.Stat(path)
StatNotExist(fs, path) == fs[path] = "absent"

\* lines 134-139 with the explicit path ignored when config.json exists
SelectConfigFile_DefaultFirst(configFile, fs) ==
    IF StatOK(fs, "config.json") THEN "config.json" ELSE configFile

\* lines 134-139: the path loadConfig settles on ("" for none)
SelectConfigFile(configFile, fs) ==
    IF configFile = "" /\ StatOK(fs, "config.json") THEN "config.json" ELSE configFile

\* lines 140-148: the base configuration, or the error
LoadBase(in, path) ==
    IF path = "" THEN [err |-> FALSE, config |-> EmptyConfig, created |-> FALSE]
    ELSE IF StatNotExist(in.fs, path)
    THEN IF in.createOK
         THEN [err |-> FALSE, config |-> LibraryConfig(in), created |-> TRUE]
         ELSE [err |-> TRUE, config |-> EmptyConfig, created |-> FALSE]
    ELSE IF in.fs[path] = "good"
         THEN [err |-> FALSE, config |-> LibraryConfig(in), created |-> FALSE]
         ELSE [err |-> TRUE, config |-> EmptyConfig, created |-> FALSE]

\* "config.X = flag" without the test of the flag
ApplyFlag_Unconditional(cur, flag) == flag

\* "if flag != "" { config.X = flag }"
ApplyFlag(cur, flag) == IF flag # "" THEN flag ELSE cur

\* the environment variable taken whenever it is set
EnvFallback_EnvFirst(cur, env) == IF env # "" THEN env ELSE cur

\* "if config.X == "" { config.X = os.Getenv(...) }"
EnvFallback(cur, env) == IF cur = "" THEN env ELSE cur

\* the model left as it is when nothing supplies one
ModelOrDefault_Keep(model) == model

\* lines 161-163: "if config.Model == "" { config.Model = defaultModelFlag }"
ModelOrDefault(model) == IF model = "" THEN defaultModelFlag ELSE model

\* lines 152-191: the overrides applied to the base configuration
ApplyOverrides(in, base) ==
    LET flag(n) == Value(in.set, n)
        env(n)  == Value(in.set, n)
        model   == ApplyFlag(base.Model, flag("modelFlag"))
        google  == EnvFallback(ApplyFlag(base.Google_APIKey, flag("googleAPIKey")),
                               env("GOOGLE_API_KEY"))
    IN  [DebugMode         |-> IF flag("debugMode") THEN TRUE ELSE base.DebugMode,
         MessageWindow     |-> IF flag("messageWindow") > 0 THEN flag("messageWindow")
                                                            ELSE base.MessageWindow,
         Model             |-> ModelOrDefault(model),
         OpenAI_BaseURL    |-> ApplyFlag(base.OpenAI_BaseURL, flag("openaiBaseURL")),
         Anthropic_BaseURL |-> ApplyFlag(base.Anthropic_BaseURL, flag("anthropicBaseURL")),
         OpenAI_APIKey     |-> EnvFallback(ApplyFlag(base.OpenAI_APIKey, flag("openaiAPIKey")),
                                           env("OPENAI_API_KEY")),
         Anthropic_APIKey  |-> EnvFallback(ApplyFlag(base.Anthropic_APIKey, flag("anthropicAPIKey")),
                                           env("ANTHROPIC_API_KEY")),
         Google_APIKey     |-> EnvFallback(google, env("GEMINI_API_KEY"))]

\* loadConfig: (config, err), the global configFile afterwards, the base it
\* started from and whether it created the file
loadConfig(in) ==
    LET path == SelectConfigFile(in.configFile, in.fs)
        b    == LoadBase(in, path)
    IN  [err        |-> b.err,
         config     |-> IF b.err THEN EmptyConfig ELSE ApplyOverrides(in, b.config),
         base       |-> b.config,
         configFile |-> path,
         created    |-> b.created]

(***************************************************************************)
(* The inputs loadConfig is applied to.  The sources vary in every         *)
(* combination inside one group of related sources at a time; the sources  *)
(* outside the group are all unset or all set.  zeroGiven holds the flags   *)
(* the user wrote on the command line with their zero value                *)
(* (--message-window 0, --debug=false); loadConfig sees only the values.   *)
(***************************************************************************)
ZeroableFlags == {"messageWindow", "debugMode"}

SourceGroups ==
    { {"openaiAPIKey", "OpenAI_APIKey", "OPENAI_API_KEY",
       "anthropicAPIKey", "Anthropic_APIKey", "ANTHROPIC_API_KEY"},
      {"googleAPIKey", "Google_APIKey", "GOOGLE_API_KEY", "GEMINI_API_KEY",
       "openaiAPIKey", "OpenAI_APIKey"},
      {"modelFlag", "Model", "messageWindow", "MessageWindow", "debugMode", "DebugMode"},
      {"openaiBaseURL", "OpenAI_BaseURL", "anthropicBaseURL", "Anthropic_BaseURL",
       "modelFlag", "Model"} }

SourceSettings ==
    UNION { { [n \in SourceNames |-> IF n \in g THEN s[n] ELSE rest] :
                s \in [g -> BOOLEAN], rest \in BOOLEAN } : g \in SourceGroups }

ConfigInputs ==
    { i \in [configFile : {"", "my.json"}, fs : [Paths -> FileStates],
              createOK : BOOLEAN, set : SourceSettings,
              zeroGiven : SUBSET ZeroableFlags] :
        \A n \in i.zeroGiven : ~i.set[n] }

NoInput ==
    [configFile |-> "", fs |-> [p \in Paths |-> "absent"], createOK |-> TRUE,
     set |-> [n \in SourceNames |-> FALSE], zeroGiven |-> {}]

(***************************************************************************)
(* State.                                                                  *)
(***************************************************************************)
VARIABLES
    pc,               \* run: "start", "awaiting" (in the input form), "processing"
                      \* (a line was read), "prompting" (inside Prompt), "terminated"
    engine,           \* the engine handle was constructed (the deferred Finish is set)
    finishCalls,      \* calls of cleverChattyObject.Finish()
    exitCode,         \* the process's exit status, -1 while it runs
    ended,            \* how the session ended: "none", "configError", "engineError",
                      \* "rendererError", "aborted", "inputError", "promptError", "quit"
    prompt,           \* the line read in this iteration of the loop
    promptArg,        \* the argument of the Prompt call, until the engine echoes it
    promptCalls,      \* calls of cleverChattyObject.Prompt
    lastCmd,          \* what the last dispatch did: the view printed, "empty",
                      \* "forward" or "none"
    out,              \* the terminal writes of this iteration, in order
    stage,            \* the Prompt call: "idle", "call", "turn", "responded", and
                      \* "failed" once it has returned an error
    evCount,          \* events of this turn so far
    events,           \* the lifecycle events the engine has emitted in this Prompt
                      \* call, in order
    messages,         \* length of the engine's conversation history
    actionInProgress, \* the global flag
    loop,             \* per slot, the spinner goroutine: "none", "running" (inside
                      \* Run), "acking" (at actionCanceledChannel <- true)
    act,              \* per slot, the Action closure: "none", "pending" (not yet
                      \* started), "waiting" (at <-actionChannel), "done", "never"
    title,            \* per slot, the spinner's title
    cb,               \* the callback's position in releaseActionSpinner: "none",
                      \* "send" (at actionChannel <- true), "recv" (at
                      \* <-actionCanceledChannel)
    cont,             \* which handler is inside releaseActionSpinner
    cin,              \* loadConfig's inputs
    cres,             \* loadConfig's result
    cfgpc             \* "input": loadConfig not yet called; "done"

sessionVars ==
    <<pc, engine, finishCalls, exitCode, ended, prompt, promptArg, promptCalls, lastCmd,
      out, stage, evCount, events, messages, actionInProgress, loop, act, title, cb, cont>>

configVars == <<cin, cres, cfgpc>>

vars == <<sessionVars, configVars>>

spinnerVars == <<actionInProgress, loop, act, title, cb, cont>>

loopVars == <<prompt, promptArg, promptCalls, lastCmd>>

turnVars == <<stage, evCount, events, messages>>

exitVars == <<engine, finishCalls, exitCode, ended>>

Slots == 1..MaxSpinners

NoResult ==
    [err |-> FALSE, config |-> EmptyConfig, base |-> EmptyConfig,
     configFile |-> "", created |-> FALSE]

SessionInit ==
    /\ pc = "start"
    /\ engine = FALSE
    /\ finishCalls = 0
    /\ exitCode = -1
    /\ ended = "none"
    /\ prompt = <<>>
    /\ promptArg = <<>>
    /\ promptCalls = 0
    /\ lastCmd = "none"
    /\ out = <<>>
    /\ stage = "idle"
    /\ evCount = 0
    /\ events = <<>>
    /\ messages = 0
    /\ actionInProgress = FALSE
    /\ loop = [g \in Slots |-> "none"]
    /\ act = [g \in Slots |-> "none"]
    /\ title = [g \in Slots |-> "none"]
    /\ cb = "none"
    /\ cont = "none"

Init ==
    /\ SessionInit
    /\ cin = NoInput
    /\ cres = NoResult
    /\ cfgpc = "input"

(***************************************************************************)
(* The ways run ends.                                                      *)
(***************************************************************************)
\* run returns after the engine was constructed: the deferred function logs
\* and calls Finish, then main exits with 1 on an error and 0 otherwise
RunReturns(failed, writes) ==
    /\ pc' = "terminated"
    /\ out' = out \o writes \o <<"shutdownlog">>
    /\ finishCalls' = finishCalls + 1
    /\ exitCode' = IF failed THEN 1 ELSE 0

\* the deferred os.Exit(0) of handleSlashCommand: the process ends at once and
\* the functions run deferred are not run
OsExit(writes) ==
    /\ pc' = "terminated"
    /\ out' = out \o writes
    /\ exitCode' = 0
    /\ ended' = "quit"
    /\ UNCHANGED <<engine, finishCalls>>

(***************************************************************************)
(* run, up to the loop.                                                    *)
(***************************************************************************)
Startup ==
    /\ pc = "start"
    /\ \E outcome \in {"configError", "engineError", "rendererError", "ok"} :
         CASE outcome \in {"configError", "engineError"} ->
                /\ pc' = "terminated"
                /\ exitCode' = 1
                /\ ended' = outcome
                /\ UNCHANGED <<engine, finishCalls, out>>
           [] outcome = "rendererError" ->
                /\ engine' = TRUE
                /\ RunReturns(TRUE, <<>>)
                /\ ended' = outcome
           [] outcome = "ok" ->
                /\ engine' = TRUE
                /\ pc' = "awaiting"
                /\ UNCHANGED <<finishCalls, exitCode, ended, out>>
    /\ UNCHANGED <<loopVars, turnVars, spinnerVars, configVars>>

(***************************************************************************)
(* The loop: the input form.                                               *)
(***************************************************************************)
\* the form returns a line
ReadLine ==
    /\ pc = "awaiting"
    /\ promptCalls < MaxTurns
    /\ \E l \in Lines : prompt' = l
    /\ pc' = "processing"
    /\ out' = <<>>
    /\ lastCmd' = "none"
    /\ UNCHANGED <<promptArg, promptCalls, exitVars, turnVars, spinnerVars, configVars>>

\* the abort returned to main like any other error of the form
InputAborted_AsError ==
    /\ pc = "awaiting"
    /\ RunReturns(TRUE, <<>>)
    /\ ended' = "aborted"
    /\ UNCHANGED <<engine, loopVars, turnVars, spinnerVars, configVars>>

\* the form returns huh.ErrUserAborted
InputAborted ==
    /\ pc = "awaiting"
    /\ RunReturns(FALSE, <<"goodbye">>)
    /\ ended' = "aborted"
    /\ UNCHANGED <<engine, loopVars, turnVars, spinnerVars, configVars>>

\* the form returns another error
InputError ==
    /\ pc = "awaiting"
    /\ RunReturns(TRUE, <<>>)
    /\ ended' = "inputError"
    /\ UNCHANGED <<engine, loopVars, turnVars, spinnerVars, configVars>>

(***************************************************************************)
(* The loop: the line read.                                                *)
(***************************************************************************)
\* the views that go through the markdown renderer (updateRenderer, Render)
RenderedViews == {"help", "history", "servers"}

\* what a command handler writes: its view, or the inline error when the
\* renderer cannot be set up or fails
ViewWrite(view, renderOK) ==
    IF view \in RenderedViews /\ ~renderOK THEN "rendererror" ELSE view

\* the loop forwarding the trimmed, lower-cased line
ProcessLine_ForwardsTrimmed ==
    /\ pc = "processing"
    /\ prompt' = <<>>
    /\ IF prompt = <<>>
       THEN /\ pc' = "awaiting"
            /\ lastCmd' = "empty"
            /\ UNCHANGED <<out, promptArg, promptCalls, exitVars, turnVars>>
       ELSE LET r == handleSlashCommand(prompt) IN
            IF r.handled
            THEN /\ lastCmd' = r.view
                 /\ IF r.exit THEN OsExit(<<r.view>>)
                    ELSE /\ pc' = "awaiting"
                         /\ \E renderOK \in BOOLEAN :
                              out' = Append(out, ViewWrite(r.view, renderOK))
                         /\ UNCHANGED exitVars
                 /\ UNCHANGED <<promptArg, promptCalls, turnVars>>
            ELSE /\ lastCmd' = "forward"
                 /\ pc' = "prompting"
                 /\ promptArg' = ToLower(TrimSpace(prompt))
                 /\ promptCalls' = promptCalls + 1
                 /\ stage' = "call"
                 /\ evCount' = 0
                 /\ events' = <<>>
                 /\ UNCHANGED <<out, exitVars, messages>>
    /\ UNCHANGED <<spinnerVars, configVars>>

\* lines 605-618: the empty line, the dispatcher, the call of Prompt
ProcessLine ==
    /\ pc = "processing"
    /\ prompt' = <<>>
    /\ IF prompt = <<>>
       THEN /\ pc' = "awaiting"
            /\ lastCmd' = "empty"
            /\ UNCHANGED <<out, promptArg, promptCalls, exitVars, turnVars>>
       ELSE LET r == handleSlashCommand(prompt) IN
            IF r.handled
            THEN /\ lastCmd' = r.view
                 /\ IF r.exit THEN OsExit(<<r.view>>)
                    ELSE /\ pc' = "awaiting"
                         /\ \E renderOK \in BOOLEAN :
                              out' = Append(out, ViewWrite(r.view, renderOK))
                         /\ UNCHANGED exitVars
                 /\ UNCHANGED <<promptArg, promptCalls, turnVars>>
            ELSE /\ lastCmd' = "forward"
                 /\ pc' = "prompting"
                 /\ promptArg' = prompt
                 /\ promptCalls' = promptCalls + 1
                 /\ stage' = "call"
                 /\ evCount' = 0
                 /\ events' = <<>>
                 /\ UNCHANGED <<out, exitVars, messages>>
    /\ UNCHANGED <<spinnerVars, configVars>>

(***************************************************************************)
(* The busy indicator: showSpinner and releaseActionSpinner, as called by  *)
(* the lifecycle callbacks, and the goroutine showSpinner starts.          *)
(***************************************************************************)
IsFree(l, a, g) == l[g] = "none" /\ a[g] = "none"

HasFreeSlot(l, a) == \E g \in Slots : IsFree(l, a, g)

FreeSlot(l, a) == CHOOSE g \in Slots : IsFree(l, a, g) /\ \A h \in 1..(g - 1) : ~IsFree(l, a, h)

\* lines 529-536: set the flag and start the goroutine; the spinner's Action
\* has not started yet
StartSpinner(l, a, t, text) ==
    /\ HasFreeSlot(l, a)
    /\ actionInProgress' = TRUE
    /\ loop' = [l EXCEPT ![FreeSlot(l, a)] = "running"]
    /\ act' = [a EXCEPT ![FreeSlot(l, a)] = "pending"]
    /\ title' = [t EXCEPT ![FreeSlot(l, a)] = text]

\* lines 517-520: the flag is cleared, the caller is at actionChannel <- true
BeginRelease(handler) ==
    /\ actionInProgress' = FALSE
    /\ cb' = "send"
    /\ cont' = handler
    /\ UNCHANGED <<loop, act, title>>

\* showSpinner without the stop of the running spinner
showSpinner_NoStop(text) ==
    /\ StartSpinner(loop, act, title, text)
    /\ UNCHANGED <<cb, cont>>

\* showSpinner, up to its first blocking point
showSpinner(text) ==
    IF actionInProgress
    THEN BeginRelease(text)
    ELSE /\ StartSpinner(loop, act, title, text)
         /\ UNCHANGED <<cb, cont>>

\* the engine is inside Prompt and no callback is running
EngineReady == pc = "prompting" /\ cb = "none"

\* SetStartedPromptProcessing: the echo of the prompt
EvStartedPromptProcessing ==
    /\ EngineReady
    /\ stage = "call"
    /\ stage' = "turn"
    /\ events' = Append(events, "prompt")
    /\ messages' = messages + 1
    /\ out' = Append(out, "echo")
    /\ promptArg' = <<>>
    /\ UNCHANGED <<pc, prompt, promptCalls, lastCmd, evCount, exitVars, spinnerVars, configVars>>

\* SetStartedThinking
EvStartedThinking ==
    /\ EngineReady
    /\ stage = "turn"
    /\ evCount < MaxEvents
    /\ evCount' = evCount + 1
    /\ events' = Append(events, "thinking")
    /\ showSpinner("thinking")
    /\ UNCHANGED <<pc, loopVars, out, stage, messages, exitVars, configVars>>

\* SetToolCalling
EvToolCalling ==
    /\ EngineReady
    /\ stage = "turn"
    /\ evCount < MaxEvents
    /\ evCount' = evCount + 1
    /\ events' = Append(events, "tool")
    /\ showSpinner("tool")
    /\ UNCHANGED <<pc, loopVars, out, stage, messages, exitVars, configVars>>

\* SetToolCallFailed without its error line
EvToolCallFailed_Silent ==
    /\ EngineReady
    /\ stage = "turn"
    /\ evCount < MaxEvents
    /\ evCount' = evCount + 1
    /\ events' = Append(events, "toolfail")
    /\ IF actionInProgress
       THEN BeginRelease("toolfail") /\ UNCHANGED out
       ELSE UNCHANGED <<out, spinnerVars>>
    /\ UNCHANGED <<pc, loopVars, stage, messages, exitVars, configVars>>

\* SetToolCallFailed ending the session with its error
EvToolCallFailed_Fatal ==
    /\ EngineReady
    /\ stage = "turn"
    /\ evCount < MaxEvents
    /\ evCount' = evCount + 1
    /\ events' = Append(events, "toolfail")
    /\ IF actionInProgress
       THEN BeginRelease("toolfail") /\ UNCHANGED <<out, pc, exitVars>>
       ELSE /\ RunReturns(TRUE, <<"toolerr">>)
            /\ ended' = "toolError"
            /\ UNCHANGED <<engine, spinnerVars>>
    /\ UNCHANGED <<loopVars, stage, messages, configVars>>

\* SetToolCallFailed writing its error line without releaseActionSpinner
EvToolCallFailed_NoRelease ==
    /\ EngineReady
    /\ stage = "turn"
    /\ evCount < MaxEvents
    /\ evCount' = evCount + 1
    /\ events' = Append(events, "toolfail")
    /\ out' = Append(out, "toolerr")
    /\ UNCHANGED <<spinnerVars, pc, loopVars, stage, messages, exitVars, configVars>>

\* SetToolCallFailed with a releaseActionSpinner that does not test the flag
EvToolCallFailed_AlwaysRelease ==
    /\ EngineReady
    /\ stage = "turn"
    /\ evCount < MaxEvents
    /\ evCount' = evCount + 1
    /\ events' = Append(events, "toolfail")
    /\ BeginRelease("toolfail")
    /\ UNCHANGED <<out, pc, loopVars, stage, messages, exitVars, configVars>>

\* SetToolCallFailed
EvToolCallFailed ==
    /\ EngineReady
    /\ stage = "turn"
    /\ evCount < MaxEvents
    /\ evCount' = evCount + 1
    /\ events' = Append(events, "toolfail")
    /\ IF actionInProgress
       THEN BeginRelease("toolfail") /\ UNCHANGED out
       ELSE out' = Append(out, "toolerr") /\ UNCHANGED spinnerVars
    /\ UNCHANGED <<pc, loopVars, stage, messages, exitVars, configVars>>

\* SetResponseReceived without the call of releaseActionSpinner
EvResponseReceived_NoRelease ==
    /\ EngineReady
    /\ stage = "turn"
    /\ events' = Append(events, "response")
    /\ messages' = messages + 1
    /\ out' = Append(out, "response")
    /\ stage' = "responded"
    /\ UNCHANGED <<spinnerVars, pc, loopVars, evCount, exitVars, configVars>>

\* SetResponseReceived
EvResponseReceived ==
    /\ EngineReady
    /\ stage = "turn"
    /\ events' = Append(events, "response")
    /\ messages' = messages + 1
    /\ IF actionInProgress
       THEN BeginRelease("response") /\ UNCHANGED <<out, stage>>
       ELSE /\ out' = Append(out, "response")
            /\ stage' = "responded"
            /\ UNCHANGED spinnerVars
    /\ UNCHANGED <<pc, loopVars, evCount, exitVars, configVars>>

\* actionChannel <- true meets <-actionChannel of a spinner's Action
StopSignal(g) ==
    /\ pc = "prompting"
    /\ cb = "send"
    /\ act[g] = "waiting"
    /\ act' = [act EXCEPT ![g] = "done"]
    /\ cb' = "recv"
    /\ UNCHANGED <<actionInProgress, loop, title, cont, pc, loopVars, out, turnVars,
                   exitVars, configVars>>

\* <-actionCanceledChannel meets actionCanceledChannel <- true of a goroutine,
\* which ends; releaseActionSpinner returns and the handler runs to its end
AckReceived(g) ==
    /\ pc = "prompting"
    /\ cb = "recv"
    /\ loop[g] = "acking"
    /\ cb' = "none"
    /\ cont' = "none"
    /\ LET l1 == [loop EXCEPT ![g] = "none"]
           a1 == [act EXCEPT ![g] = IF @ \in {"done", "never"} THEN "none" ELSE @]
           t1 == [title EXCEPT ![g] = IF a1[g] = "none" THEN "none" ELSE @]
       IN  CASE cont \in {"thinking", "tool"} ->
                  /\ StartSpinner(l1, a1, t1, cont)
                  /\ UNCHANGED <<out, stage>>
             [] cont = "toolfail" ->
                  /\ loop' = l1 /\ act' = a1 /\ title' = t1
                  /\ out' = Append(out, "toolerr")
                  /\ UNCHANGED <<actionInProgress, stage>>
             [] cont = "response" ->
                  /\ loop' = l1 /\ act' = a1 /\ title' = t1
                  /\ out' = Append(out, "response")
                  /\ stage' = "responded"
                  /\ UNCHANGED actionInProgress
    /\ UNCHANGED <<pc, loopVars, evCount, events, messages, exitVars, configVars>>

\* the spinner starts its Action, which blocks at <-actionChannel
ActionStarts(g) ==
    /\ pc = "prompting"
    /\ loop[g] = "running"
    /\ act[g] = "pending"
    /\ act' = [act EXCEPT ![g] = "waiting"]
    /\ UNCHANGED <<actionInProgress, loop, title, cb, cont, pc, loopVars, out, turnVars,
                   exitVars, configVars>>

\* Run returns because the Action has returned
SpinnerDone(g) ==
    /\ pc = "prompting"
    /\ loop[g] = "running"
    /\ act[g] = "done"
    /\ loop' = [loop EXCEPT ![g] = "acking"]
    /\ UNCHANGED <<actionInProgress, act, title, cb, cont, pc, loopVars, out, turnVars,
                   exitVars, configVars>>

\* Run returns on its own while its Action is still blocked (the spinner is
\* interrupted from the keyboard); the Action stays at <-actionChannel
SpinnerInterrupted(g) ==
    /\ pc = "prompting"
    /\ loop[g] = "running"
    /\ act[g] = "waiting"
    /\ loop' = [loop EXCEPT ![g] = "acking"]
    /\ UNCHANGED <<actionInProgress, act, title, cb, cont, pc, loopVars, out, turnVars,
                   exitVars, configVars>>

\* Run returns an error before it has started the Action (the spinner's
\* program cannot start); no Action will ever receive from actionChannel
SpinnerFails(g) ==
    /\ pc = "prompting"
    /\ loop[g] = "running"
    /\ act[g] = "pending"
    /\ loop' = [loop EXCEPT ![g] = "acking"]
    /\ act' = [act EXCEPT ![g] = "never"]
    /\ UNCHANGED <<actionInProgress, title, cb, cont, pc, loopVars, out, turnVars,
                   exitVars, configVars>>

(***************************************************************************)
(* The end of the Prompt call.                                             *)
(***************************************************************************)
\* Prompt returns an error and the loop goes on
PromptFails_Absorbed ==
    /\ EngineReady
    /\ stage \in {"call", "turn", "responded"}
    /\ pc' = "awaiting"
    /\ stage' = "failed"
    /\ promptArg' = <<>>
    /\ UNCHANGED <<out, exitVars, prompt, promptCalls, lastCmd, evCount, events, messages,
                   spinnerVars, configVars>>

\* Prompt returning while its events are still being handled
PromptReturns_BeforeHandlers ==
    /\ pc = "prompting"
    /\ stage \in {"turn", "responded"}
    /\ pc' = "awaiting"
    /\ stage' = "idle"
    /\ events' = <<>>
    /\ UNCHANGED <<out, exitVars, loopVars, evCount, messages, spinnerVars, configVars>>

\* Prompt returns no error (the engine has delivered the response)
PromptReturns ==
    /\ EngineReady
    /\ stage = "responded"
    /\ pc' = "awaiting"
    /\ stage' = "idle"
    /\ events' = <<>>
    /\ UNCHANGED <<out, exitVars, loopVars, evCount, messages, spinnerVars, configVars>>

\* Prompt returns an error: run returns it
PromptFails ==
    /\ EngineReady
    /\ stage \in {"call", "turn", "responded"}
    /\ RunReturns(TRUE, <<>>)
    /\ ended' = "promptError"
    /\ stage' = "failed"
    /\ promptArg' = <<>>
    /\ UNCHANGED <<engine, prompt, promptCalls, lastCmd, evCount, events, messages,
                   spinnerVars, configVars>>

Next ==
    \/ Startup
    \/ ReadLine
    \/ InputAborted
    \/ InputError
    \/ ProcessLine
    \/ EvStartedPromptProcessing
    \/ EvStartedThinking
    \/ EvToolCalling
    \/ EvToolCallFailed
    \/ EvResponseReceived
    \/ \E g \in Slots : StopSignal(g)
    \/ \E g \in Slots : AckReceived(g)
    \/ \E g \in Slots : ActionStarts(g)
    \/ \E g \in Slots : SpinnerDone(g)
    \/ \E g \in Slots : SpinnerInterrupted(g)
    \/ \E g \in Slots : SpinnerFails(g)
    \/ PromptReturns
    \/ PromptFails

Spec == Init /\ [][Next]_vars

(***************************************************************************)
(* loadConfig on its own.                                                  *)
(***************************************************************************)
ConfigInit ==
    /\ SessionInit
    /\ cin \in ConfigInputs
    /\ cres = NoResult
    /\ cfgpc = "input"

ResolveConfig ==
    /\ cfgpc = "input"
    /\ cres' = loadConfig(cin)
    /\ cfgpc' = "done"
    /\ UNCHANGED <<cin, sessionVars>>

ConfigNext == ResolveConfig

SpecConfig == ConfigInit /\ [][ConfigNext]_vars

(***************************************************************************)
(* Properties of the session (Spec).                                       *)
(***************************************************************************)
\* a spinner goroutine is alive from its start to the end of its send on
\* actionCanceledChannel
Alive(g) == loop[g] \in {"running", "acking"}

AliveCount == Cardinality({g \in Slots : Alive(g)})

ReservedCommands ==
    {<<"/", "tools">>, <<"/", "help">>, <<"/", "history">>, <<"/", "servers">>,
     <<"/", "quit">>}

\* C1: at most one spinner goroutine is alive in every reachable state, and
\* when no show or hide is in progress and the flag is clear (after a hide
\* has returned) none is alive.
C1_AtMostOneLoop ==
    /\ AliveCount <= 1
    /\ (cb = "none" /\ ~actionInProgress) => AliveCount = 0

\* two shows and the hide of ResponseReceived have run in this turn
C1_Witness ==
    /\ pc = "prompting"
    /\ stage = "responded"
    /\ evCount = 2
    /\ out = <<"echo", "response">>
    /\ ~actionInProgress
    /\ AliveCount = 0

\* C2: a session that constructed its engine and has terminated has called
\* Finish exactly once.
C2_FinishExactlyOnce == (pc = "terminated" /\ engine) => finishCalls = 1

\* C3: a line equal to "/quit" after trimming and case folding ends the
\* session with the farewell and without a Prompt call.
C3_QuitAnyWhitespace ==
    [][(pc = "processing" /\ ToLower(TrimSpace(prompt)) = <<"/", "quit">>)
         => (pc' = "terminated" /\ out' = <<"goodbye">> /\ promptCalls' = promptCalls)]_vars

\* C4: while the loop waits for input the flag is clear, no spinner goroutine
\* is alive and no handshake is in progress.
C4_IdleWhileAwaiting ==
    pc = "awaiting" => (~actionInProgress /\ AliveCount = 0 /\ cb = "none")

\* back in the input form after a turn that showed two indicators
C4_Witness ==
    /\ pc = "awaiting"
    /\ promptCalls >= 1
    /\ evCount >= 2
    /\ out = <<"echo", "response">>

\* C5: no caller of show or hide is blocked for ever in the stop handshake:
\* a caller at the send has an Action that will receive, a caller at the
\* receive has a goroutine that will send.
C5_HandshakeCompletes ==
    /\ cb = "send" => \E g \in Slots : act[g] \in {"pending", "waiting"}
    /\ cb = "recv" => \E g \in Slots : Alive(g)

\* C8: a line that starts with "/" and is no reserved command is answered
\* with the unknown-command message; no Prompt call, no exit, and the loop is
\* back in the input form.
C8_UnknownCommandHandled ==
    [][(pc = "processing" /\ HasSlashPrefix(prompt)
          /\ ToLower(TrimSpace(prompt)) \notin ReservedCommands)
         => (pc' = "awaiting" /\ out' = <<"unknown">> /\ lastCmd' = "unknown"
             /\ promptCalls' = promptCalls /\ stage' = "idle" /\ exitCode' = -1)]_vars

\* an unknown command was dispatched
C8_Witness == pc = "awaiting" /\ lastCmd = "unknown" /\ out = <<"unknown">>

\* C9: a line that is empty after trimming is neither dispatched nor
\* forwarded: no Prompt call, no output, no change of the indicator.
C9_BlankLineIgnored ==
    [][(pc = "processing" /\ TrimSpace(prompt) = <<>>)
         => (pc' = "awaiting" /\ promptCalls' = promptCalls /\ out' = out
             /\ UNCHANGED spinnerVars)]_vars

\* C10: once Prompt has returned an error the session is terminated, Finish
\* was called, the shutdown line is the last write and the exit status is 1.
C10_PromptErrorFatal ==
    stage = "failed" =>
        /\ pc = "terminated"
        /\ finishCalls = 1
        /\ exitCode = 1
        /\ out # <<>> /\ out[Len(out)] = "shutdownlog"

\* Prompt failed in the middle of a turn, with an indicator showing
C10_Witness == stage = "failed" /\ pc = "terminated" /\ actionInProgress /\ evCount >= 1

(***************************************************************************)
(* Properties of the session (Spec), continued.                            *)
(***************************************************************************)
Last(s) == s[Len(s)]

\* C11: an abort of the input form is taken from the input form, ends the
\* session at once with the farewell followed by the shutdown line, calls
\* Finish (once in the whole session), calls no Prompt and exits with 0.
C11_AbortIsCleanExit ==
    [][(ended = "none" /\ ended' = "aborted")
         => (/\ pc = "awaiting"
             /\ pc' = "terminated"
             /\ out' = out \o <<"goodbye", "shutdownlog">>
             /\ promptCalls' = promptCalls
             /\ promptArg' = <<>>
             /\ finishCalls = 0
             /\ finishCalls' = 1
             /\ exitCode' = 0)]_vars

\* the form was aborted after a turn
C11_Witness ==
    /\ ended = "aborted"
    /\ promptCalls >= 1
    /\ exitCode = 0
    /\ finishCalls = 1

\* the writes of the router for a sequence of lifecycle events
RECURSIVE WritesOf(_)
WritesOf(evs) ==
    IF evs = <<>> THEN <<>>
    ELSE LET w == CASE Head(evs) = "prompt"   -> <<"echo">>
                    [] Head(evs) = "toolfail" -> <<"toolerr">>
                    [] Head(evs) = "response" -> <<"response">>
                    [] OTHER                  -> <<>>
         IN  w \o WritesOf(Tail(evs))

Front(s) == SubSeq(s, 1, Len(s) - 1)

\* C12: inside a Prompt call the writes are those of the events emitted, in
\* the order of the events (the last event's write is still to come while
\* its handler is in the stop handshake); once the response event is
\* handled the response is the last write, the flag is clear and no spinner
\* goroutine is alive.
C12_WritesFollowEvents ==
    pc = "prompting" =>
        /\ cb = "none" => out = WritesOf(events)
        /\ cb # "none" => out = WritesOf(Front(events))
        /\ stage = "responded" =>
             /\ Last(out) = "response"
             /\ Last(events) = "response"
             /\ ~actionInProgress
             /\ AliveCount = 0

\* ThinkingStarted, ToolCallStarted, ToolCallFailed, ResponseReceived
C12_Witness ==
    /\ pc = "prompting"
    /\ stage = "responded"
    /\ events = <<"prompt", "thinking", "tool", "toolfail", "response">>
    /\ out = <<"echo", "toolerr", "response">>
    /\ ~actionInProgress
    /\ AliveCount = 0

\* C14 as stated: a session that ended on a failure (exit status 1) ended on
\* a failure of loadConfig, of the engine's construction or of Prompt.
C14_OnlyThreeFatal ==
    (pc = "terminated" /\ exitCode = 1)
        => ended \in {"configError", "engineError", "promptError"}

\* C14 as amended: a session that ended on a failure ended on a failure of
\* loadConfig, of the engine's construction, of the renderer's set-up at
\* startup, of the input form (other than an abort) or of Prompt; after the
\* error line of a failed tool call the session is still inside Prompt, and
\* after the error line of a command whose rendering failed it is back in
\* the input form.
C14_FatalFailures ==
    /\ (pc = "terminated" /\ exitCode = 1)
         => ended \in {"configError", "engineError", "rendererError", "inputError",
                        "promptError"}
    /\ ended \in {"configError", "engineError", "rendererError", "inputError", "promptError"}
         => (pc = "terminated" /\ exitCode = 1)
    /\ (out # <<>> /\ Last(out) = "toolerr")
         => (pc = "prompting" /\ ended = "none" /\ exitCode = -1)
    /\ (out # <<>> /\ Last(out) = "rendererror")
         => (pc = "awaiting" /\ ended = "none" /\ exitCode = -1)

\* the input form failed after a command whose rendering had failed
C14_Witness ==
    /\ ended = "inputError"
    /\ exitCode = 1
    /\ Len(out) = 2
    /\ out[1] = "rendererror"

\* C15: a line with a first non-space character other than "/" is not
\* handled by the dispatcher and is the argument, unchanged, of one Prompt
\* call, inside which the loop then is.
C15_ForwardedVerbatim ==
    [][(pc = "processing" /\ TrimLeft(prompt) # <<>> /\ Head(TrimLeft(prompt)) # "/")
         => (/\ ~handleSlashCommand(prompt).handled
             /\ pc' = "prompting"
             /\ promptArg' = prompt
             /\ promptCalls' = promptCalls + 1
             /\ lastCmd' = "forward"
             /\ stage' = "call")]_vars

\* a line in upper case with spaces around it is the argument of Prompt
C15_Witness ==
    /\ pc = "prompting"
    /\ stage = "call"
    /\ promptCalls = 1
    /\ promptArg = <<" ", "QUIT", " ">>

\* C17: every terminal write of the session (echo, tool-error line,
\* response, the lines of a command, the shutdown line) is made when no
\* spinner goroutine is alive.
C17_NoWriteWhileLoopAlive ==
    [][Len(out') > Len(out) => AliveCount' = 0]_vars

\* the last event is ToolCallFailed and its handler has returned
AfterToolCallFailed ==
    /\ pc = "prompting"
    /\ cb = "none"
    /\ stage = "turn"
    /\ events # <<>>
    /\ Last(events) = "toolfail"

\* C18: the step that writes the error line of a failed tool call leaves
\* the session inside Prompt with the flag clear, no spinner goroutine alive
\* and no exit; from there ToolCallStarted and ThinkingStarted start one
\* spinner without a handshake, and ResponseReceived writes the response and
\* ends the turn's events without a handshake.
C18_ToolFailureNonFatal ==
    [][/\ (Len(out') = Len(out) + 1 /\ Last(out') = "toolerr")
            => (/\ pc' = "prompting"
                /\ stage' = "turn"
                /\ cb' = "none"
                /\ ~actionInProgress'
                /\ AliveCount' = 0
                /\ UNCHANGED exitVars)
       /\ (AfterToolCallFailed /\ Len(events') > Len(events)
             /\ Last(events') \in {"thinking", "tool"})
            => (/\ actionInProgress'
                /\ AliveCount' = 1
                /\ cb' = "none"
                /\ out' = out)
       /\ (AfterToolCallFailed /\ Len(events') > Len(events)
             /\ Last(events') = "response")
            => (/\ out' = Append(out, "response")
                /\ stage' = "responded"
                /\ cb' = "none"
                /\ ~actionInProgress'
                /\ AliveCount' = 0)]_vars

\* a spinner was stopped by ToolCallFailed, and ToolCallStarted after it has
\* started another
C18_Witness ==
    /\ pc = "prompting"
    /\ events = <<"prompt", "thinking", "toolfail", "tool">>
    /\ out = <<"echo", "toolerr">>
    /\ actionInProgress
    /\ AliveCount = 1
    /\ cb = "none"

\* C19: a handler that calls releaseActionSpinner (ToolCallFailed,
\* ResponseReceived) with the flag clear changes neither the flag nor any
\* goroutine or Action, and is at neither channel afterwards.
C19_HideWhenIdleNoOp ==
    [][(/\ ~actionInProgress
        /\ cb = "none"
        /\ Len(events') > Len(events)
        /\ Last(events') \in {"toolfail", "response"})
         => (UNCHANGED spinnerVars /\ cb' = "none" /\ ~actionInProgress')]_vars

\* ToolCallFailed and then ResponseReceived with no spinner shown
C19_Witness ==
    /\ pc = "prompting"
    /\ events = <<"prompt", "toolfail", "toolfail", "response">>
    /\ out = <<"echo", "toolerr", "toolerr", "response">>
    /\ stage = "responded"
    /\ ~actionInProgress

\* the lines the dispatcher answers with a view or the unknown-command message
C20_LocalCommand(line) ==
    /\ HasSlashPrefix(line)
    /\ ToLower(TrimSpace(line)) # <<"/", "quit">>

\* C20: the dispatch of /tools, /help, /history, /servers or an unknown
\* command takes the loop back to the input form and changes neither the
\* engine's history, the configuration, the flag, any spinner, the Prompt
\* calls nor the exit state.
C20_CommandsReadOnly ==
    [][(pc = "processing" /\ C20_LocalCommand(prompt))
         => (/\ pc' = "awaiting"
             /\ lastCmd' \in {"tools", "help", "history", "servers", "unknown"}
             /\ UNCHANGED <<messages, events, stage, evCount>>
             /\ UNCHANGED configVars
             /\ UNCHANGED spinnerVars
             /\ UNCHANGED <<promptCalls, promptArg>>
             /\ UNCHANGED exitVars)]_vars

\* /history after a turn: the two messages of the turn are still there
C20_Witness ==
    /\ pc = "awaiting"
    /\ lastCmd = "history"
    /\ promptCalls = 1
    /\ messages = 2
    /\ out = <<"history">>

\* C21: a Prompt call is made only from the loop, after the call before it
\* has returned and with no event handler still running; events are handled
\* only inside the one call in flight; and the call returns only when no
\* handler is running.
C21_TurnsNeverOverlap ==
    [][/\ promptCalls' # promptCalls
            => (/\ promptCalls' = promptCalls + 1
                /\ pc = "processing"
                /\ pc' = "prompting"
                /\ stage = "idle"
                /\ events = <<>>
                /\ cb = "none")
       /\ (events' # events /\ events' # <<>>)
            => (pc = "prompting" /\ pc' = "prompting" /\ cb = "none"
                /\ events' = Append(events, Last(events')))
       /\ (pc = "prompting" /\ pc' # "prompting") => cb = "none"]_vars

\* the second Prompt call is in flight and has emitted its first event; the
\* history holds the two messages of the first turn and the second prompt
C21_Witness ==
    /\ pc = "prompting"
    /\ promptCalls = 2
    /\ events = <<"prompt">>
    /\ messages = 3
    /\ cb = "none"

\* the spinner goroutines that are alive and whose Action has not received
\* from actionChannel
Unstopped == {g \in Slots : Alive(g) /\ act[g] # "done"}

\* C22: when no handler is inside releaseActionSpinner, actionInProgress is
\* true exactly when one spinner goroutine is alive and unstopped, and no
\* goroutine is at its send on actionCanceledChannel.
C22_FlagIffOneLoop ==
    cb = "none" =>
        /\ actionInProgress <=> Cardinality(Unstopped) = 1
        /\ \A g \in Slots : loop[g] # "acking"

(***************************************************************************)
(* Properties of loadConfig (SpecConfig).                                  *)
(***************************************************************************)
\* the value the config file supplies: none when no file is used
FileValue(n) == IF cres.configFile = "" THEN "" ELSE Value(cin.set, n)

FirstNonEmpty(a, b, c) == IF a # "" THEN a ELSE IF b # "" THEN b ELSE c

Resolved == cfgpc = "done" /\ ~cres.err

\* C6: every API key resolves to the first non-empty of flag, file,
\* environment (for Google the environment is GOOGLE_API_KEY, then
\* GEMINI_API_KEY); the model to the first non-empty of flag, file, default.
C6_Precedence ==
    Resolved =>
        /\ cres.config.OpenAI_APIKey =
             FirstNonEmpty(Value(cin.set, "openaiAPIKey"), FileValue("OpenAI_APIKey"),
                           Value(cin.set, "OPENAI_API_KEY"))
        /\ cres.config.Anthropic_APIKey =
             FirstNonEmpty(Value(cin.set, "anthropicAPIKey"), FileValue("Anthropic_APIKey"),
                           Value(cin.set, "ANTHROPIC_API_KEY"))
        /\ cres.config.Google_APIKey =
             FirstNonEmpty(Value(cin.set, "googleAPIKey"), FileValue("Google_APIKey"),
                           FirstNonEmpty(Value(cin.set, "GOOGLE_API_KEY"),
                                         Value(cin.set, "GEMINI_API_KEY"), ""))
        /\ cres.config.Model =
             FirstNonEmpty(Value(cin.set, "modelFlag"), FileValue("Model"), defaultModelFlag)

\* an empty flag left the file's key in place, ahead of the environment's
C6_Witness ==
    /\ Resolved
    /\ Value(cin.set, "openaiAPIKey") = ""
    /\ FileValue("OpenAI_APIKey") # ""
    /\ Value(cin.set, "OPENAI_API_KEY") # ""
    /\ cres.config.OpenAI_APIKey = FileValue("OpenAI_APIKey")

\* C7 as stated: an error only for an explicitly given path that is
\* unreadable or unparsable, and never without a path.
C7_OnlyExplicitPathFails ==
    (cfgpc = "done" /\ cres.err) =>
        (cin.configFile # "" /\ cin.fs[cin.configFile] \in {"malformed", "noaccess"})

\* the file loadConfig is to use: the given path, else config.json if there
C7_FileInUse ==
    IF cin.configFile # "" THEN cin.configFile
    ELSE IF cin.fs["config.json"] \in {"good", "malformed"} THEN "config.json" ELSE ""

\* C7 as amended: an error only when the file in use (the given path, or
\* config.json when no path is given and it exists) cannot be read or parsed,
\* or is missing at the given path and cannot be created; without a path and
\* without a config.json there is never an error.
C7_OnlyFileInUseFails ==
    cfgpc = "done" =>
        /\ cres.err =>
             /\ C7_FileInUse # ""
             /\ \/ cin.fs[C7_FileInUse] \in {"malformed", "noaccess"}
                \/ cin.fs[C7_FileInUse] = "absent" /\ ~cin.createOK
        /\ (cin.configFile = "" /\ cin.fs["config.json"] \in {"absent", "noaccess"}) => ~cres.err

\* no path was given and the config.json found does not parse
C7_Witness ==
    /\ cfgpc = "done"
    /\ cres.err
    /\ cin.configFile = ""
    /\ cin.fs["config.json"] = "malformed"

\* C13: after a successful loadConfig the model is not empty, and it is the
\* default when neither the flag nor the file in use supplies one (as when
\* no path is given and there is no config.json).
C13_ModelNeverEmpty ==
    Resolved =>
        /\ cres.config.Model # ""
        /\ (Value(cin.set, "modelFlag") = "" /\ FileValue("Model") = "")
             => cres.config.Model = defaultModelFlag
        /\ (Value(cin.set, "modelFlag") = "" /\ cin.configFile = ""
              /\ ~StatOK(cin.fs, "config.json"))
             => (cres.configFile = "" /\ cres.config.Model = defaultModelFlag)

\* no path, no config.json, no --model; the file sources are set but no file
\* is read
C13_Witness ==
    /\ Resolved
    /\ cin.configFile = ""
    /\ cin.fs["config.json"] = "absent"
    /\ ~cin.set["modelFlag"]
    /\ cin.set["Model"]
    /\ cres.config.Model = defaultModelFlag

\* the flag was written on the command line
Supplied(n) == cin.set[n] \/ n \in cin.zeroGiven

\* C16: after a successful loadConfig every field whose flag was written on
\* the command line has the flag's value, the zero values of
\* --message-window and --debug included.
C16_FlagsAlwaysWin ==
    Resolved =>
        /\ Supplied("modelFlag") => cres.config.Model = Value(cin.set, "modelFlag")
        /\ Supplied("messageWindow")
             => cres.config.MessageWindow = Value(cin.set, "messageWindow")
        /\ Supplied("debugMode") => cres.config.DebugMode = Value(cin.set, "debugMode")
        /\ Supplied("openaiBaseURL")
             => cres.config.OpenAI_BaseURL = Value(cin.set, "openaiBaseURL")
        /\ Supplied("anthropicBaseURL")
             => cres.config.Anthropic_BaseURL = Value(cin.set, "anthropicBaseURL")
        /\ Supplied("openaiAPIKey")
             => cres.config.OpenAI_APIKey = Value(cin.set, "openaiAPIKey")
        /\ Supplied("anthropicAPIKey")
             => cres.config.Anthropic_APIKey = Value(cin.set, "anthropicAPIKey")
        /\ Supplied("googleAPIKey")
             => cres.config.Google_APIKey = Value(cin.set, "googleAPIKey")

\* C23: when neither --google-api-key nor the file in use supplies the
\* Google key, it is GOOGLE_API_KEY if that is not empty and GEMINI_API_KEY
\* otherwise; GEMINI_API_KEY is the key only when the flag, the file and
\* GOOGLE_API_KEY are all empty.
C23_GoogleEnvOrder ==
    Resolved =>
        /\ (Value(cin.set, "googleAPIKey") = "" /\ FileValue("Google_APIKey") = "")
             => cres.config.Google_APIKey =
                  IF Value(cin.set, "GOOGLE_API_KEY") # ""
                  THEN Value(cin.set, "GOOGLE_API_KEY")
                  ELSE Value(cin.set, "GEMINI_API_KEY")
        /\ (\/ Value(cin.set, "googleAPIKey") # ""
            \/ FileValue("Google_APIKey") # ""
            \/ Value(cin.set, "GOOGLE_API_KEY") # "")
             => cres.config.Google_APIKey # "GEMINI_API_KEY"

\* only GEMINI_API_KEY is set, from a file that has no Google key
C23_Witness ==
    /\ Resolved
    /\ cres.configFile # ""
    /\ ~cin.set["googleAPIKey"]
    /\ ~cin.set["Google_APIKey"]
    /\ ~cin.set["GOOGLE_API_KEY"]
    /\ cin.set["GEMINI_API_KEY"]
    /\ cres.config.Google_APIKey = "GEMINI_API_KEY"

====
